---- MODULE Spec2Model ----
(***************************************************************************)
(* A model of the deterministic pipeline: the hashing helpers (utils.py),  *)
(* the input layer (input_layer.py), the pure processing layer             *)
(* (processing_layer.py), the provenance layer (provenance_layer.py), the  *)
(* output layer (output_layer.py) and the orchestrator (run.py).           *)
(*                                                                         *)
(* Conventions.  A Python str or bytes value is a sequence of code points  *)
(* or byte values (Nat), so that sorted() is the lexicographic order on    *)
(* sequences.  A Python dict that is iterated is a sequence of <<key,      *)
(* value>> pairs with distinct keys, in insertion order.  A JSON value is  *)
(* a record [t |-> its JSON/Python type, v |-> its text, m |-> the dict of *)
(* its members when it is an object].  SHA-256 is a collision-free         *)
(* function of the byte stream fed to it: a digest is the record           *)
(* [sha256 |-> the chunks fed].                                            *)
(***************************************************************************)
EXTENDS Integers, Sequences, FiniteSets, TLC

\* ------------------------------------------------------------------ bounds
\* The longest list of --inputs arguments.
MaxInputs == 2
\* How many times the external writer may change an input file.
MaxWrites == 1
\* The last value of the wall clock.
MaxClock == 1
\* The most entries of a dict handed to process or _compute_run_id directly.
MaxEntries == 2
\* The most calls a direct caller makes.
MaxCalls == 3

VARIABLES
    \* the world around a run
    fs,          \* the input side of the file system: absolute path -> node
    cfgfile,     \* what is at the --config path
    argv,        \* [inputs, version]: the parsed command line
    writes,      \* how many external writes have happened
    \* the run in progress (the locals of main and of load_validate_hash)
    pc,          \* the next step of main
    idx,         \* position of the loop over the input paths
    paths,       \* load_validate_hash: the resolved paths
    cfg,         \* load_validate_hash: the loaded config
    hashes,      \* load_validate_hash: input_hashes as built so far
    loaded,      \* main: the LoadedInputs record
    raw_inputs,  \* main: the dict _read_inputs builds
    processed,   \* main: the ProcessedArtifact items
    provenance,  \* main: the Provenance data
    outfs,       \* the output directory: file name -> bytes written
    written,     \* write_outputs: the mapping it builds
    failure,     \* the exception that ended the run
    exit,        \* what main returned
    executed,    \* the stages of main that were started, in order
    inputIO,     \* the file operations done on input paths in this run
    prev,        \* the previous run on the same command line
    \* a direct caller of the pure functions
    t_in,        \* the arguments it holds
    t_out        \* the results of its calls, in order

worldVars == <<fs, cfgfile, argv, writes>>
runVars == <<pc, idx, paths, cfg, hashes, loaded, raw_inputs, processed,
             provenance, outfs, written, failure, exit, executed, inputIO, prev>>
testVars == <<t_in, t_out>>
vars == <<worldVars, runVars, testVars>>

\* ------------------------------------------------------- sequences, dicts
Range(s) == {s[i] : i \in 1..Len(s)}

\* Python's < on str and on bytes: lexicographic on code points.
RECURSIVE StrLess(_, _)
StrLess(a, b) ==
    IF b = <<>> THEN FALSE
    ELSE IF a = <<>> THEN TRUE
    ELSE IF Head(a) = Head(b) THEN StrLess(Tail(a), Tail(b))
    ELSE Head(a) < Head(b)

\* The keys of a dict, in insertion order.
RECURSIVE Keys(_)
Keys(d) == IF d = <<>> THEN <<>> ELSE <<d[1][1]>> \o Keys(Tail(d))

HasKey(d, k) == \E i \in 1..Len(d) : d[i][1] = k

\* d[k] for a key the dict holds.
Get(d, k) == d[CHOOSE i \in 1..Len(d) : d[i][1] = k][2]

\* d[k] = v: a present key keeps its place, a new key goes last.
DictSet(d, k, v) ==
    IF HasKey(d, k)
    THEN [i \in 1..Len(d) |-> IF d[i][1] = k THEN <<k, v>> ELSE d[i]]
    ELSE Append(d, <<k, v>>)

\* The dict as a mapping, its insertion order forgotten (dict ==).
AsMapping(d) == Range(d)

\* sorted() of a list of strings.
RECURSIVE InsertStr(_, _)
InsertStr(s, k) ==
    IF s = <<>> THEN <<k>>
    ELSE IF StrLess(k, Head(s)) THEN <<k>> \o s
    ELSE <<Head(s)>> \o InsertStr(Tail(s), k)

RECURSIVE SortedStrs(_)
SortedStrs(s) == IF s = <<>> THEN <<>> ELSE InsertStr(SortedStrs(Tail(s)), Head(s))

\* sorted(d.items()): the keys are distinct, so the order is that of the keys.
RECURSIVE ItemsOf(_, _)
ItemsOf(d, ks) ==
    IF ks = <<>> THEN <<>> ELSE <<<<Head(ks), Get(d, Head(ks))>>>> \o ItemsOf(d, Tail(ks))

SortedItems(d) == ItemsOf(d, SortedStrs(Keys(d)))

IsPermutation(p, s) ==
    /\ Len(p) = Len(s)
    /\ \A x \in Range(s) : Cardinality({i \in 1..Len(s) : s[i] = x})
                            = Cardinality({i \in 1..Len(p) : p[i] = x})

Orderings(s) == {p \in [1..Len(s) -> Range(s)] : IsPermutation(p, s)}

\* ---------------------------------------------------------------- errors
\* An exception: its class, its message, and what it carries.
NoError == [type |-> "", msg |-> "", obj |-> <<>>]
Error(type, msg, obj) == [type |-> type, msg |-> msg, obj |-> obj]
Ok(v) == [ok |-> TRUE, val |-> v, err |-> NoError]
Raise(e) == [ok |-> FALSE, val |-> <<>>, err |-> e]

\* --------------------------------------------------------------- utils.py
ChunkSize == 1024 * 1024

\* hashlib: the digest of the chunks fed by update(), in order.
hexdigest(stream) == [sha256 |-> stream]

sha256_bytes(data) == hexdigest(data)

\* f.read(ChunkSize) until b"": each chunk is fed in turn, so the stream is the
\* concatenation of the chunks.
RECURSIVE ReadChunks(_)
ReadChunks(data) ==
    IF data = <<>> THEN <<>>
    ELSE IF Len(data) <= ChunkSize THEN data
    ELSE SubSeq(data, 1, ChunkSize) \o ReadChunks(SubSeq(data, ChunkSize + 1, Len(data)))

sha256_file(data) == hexdigest(ReadChunks(data))

\* json.dumps(sort_keys=True, separators=(",", ":")): the members in key order.
\* The keys a config may hold, sorted as Python sorts them.
ConfigKeysSorted == <<"extra", "seed", "transform">>

RECURSIVE DumpMembers(_, _)
DumpMembers(obj, ks) ==
    IF ks = <<>> THEN <<>>
    ELSE IF HasKey(obj, Head(ks))
         THEN <<<<Head(ks), Get(obj, Head(ks))>>>> \o DumpMembers(obj, Tail(ks))
         ELSE DumpMembers(obj, Tail(ks))

canonical_json_dumps(obj) == DumpMembers(obj, ConfigKeysSorted)

sha256_json(obj) == sha256_bytes(canonical_json_dumps(obj))

\* ---------------------------------------------------- processing_layer.py
\* The bytes of the model: "A", "a", "1" and 0xFF, which no UTF-8 text holds.
\* A byte below 0x80 is a whole UTF-8 character.
IsUtf8(data) == \A i \in 1..Len(data) : data[i] < 128

FirstBad(data) == CHOOSE i \in 1..Len(data) :
                      /\ data[i] >= 128
                      /\ \A j \in 1..(i - 1) : data[j] < 128

\* str.upper / str.lower on ASCII text.
Upper(data) == [i \in 1..Len(data) |->
                   IF data[i] >= 97 /\ data[i] <= 122 THEN data[i] - 32 ELSE data[i]]
Lower(data) == [i \in 1..Len(data) |->
                   IF data[i] >= 65 /\ data[i] <= 90 THEN data[i] + 32 ELSE data[i]]

IsStr(v, s) == v.t = "str" /\ v.v = s

UnicodeDecodeError(data) ==
    Error("UnicodeDecodeError", "invalid start byte", <<FirstBad(data)>> \o data)

_transform_bytes(data, transform) ==
    IF IsStr(transform, "noop") THEN Ok(data)
    ELSE IF ~IsUtf8(data) THEN Raise(UnicodeDecodeError(data))
    ELSE IF IsStr(transform, "upper") THEN Ok(Upper(data))
    ELSE IF IsStr(transform, "lower") THEN Ok(Lower(data))
    ELSE Raise(Error("ValueError", "Unsupported transform", <<>>))

\* The dict comprehension of process: the entries in the dict's order, ended by
\* the first entry that raises.
RECURSIVE TransformItems(_, _)
TransformItems(items, transform) ==
    IF items = <<>> THEN Ok(<<>>)
    ELSE LET r == _transform_bytes(items[1][2], transform) IN
         IF ~r.ok THEN r
         ELSE LET rest == TransformItems(Tail(items), transform) IN
              IF ~rest.ok THEN rest
              ELSE Ok(<<<<items[1][1], r.val>>>> \o rest.val)

process(raw, parameters) ==
    IF ~HasKey(parameters, "transform")
    THEN Raise(Error("ValueError", "Missing parameter: transform", <<>>))
    ELSE IF ~HasKey(parameters, "seed")
    THEN Raise(Error("ValueError", "Missing parameter: seed", <<>>))
    ELSE TransformItems(raw, Get(parameters, "transform"))

\* ------------------------------------------------------------------ paths
\* A command-line path is [abs, parts]; a resolved Path is its components from
\* the root.  The working directory is /d.
Cwd == << <<100>> >>
Dot == <<46>>

RECURSIVE DropDots(_)
DropDots(parts) ==
    IF parts = <<>> THEN <<>>
    ELSE IF Head(parts) = Dot THEN DropDots(Tail(parts))
    ELSE <<Head(parts)>> \o DropDots(Tail(parts))

\* Path(p).resolve(): absolute, with the "." components gone.
Resolve(arg) == DropDots((IF arg.abs THEN <<>> ELSE Cwd) \o arg.parts)

\* str(p) of an absolute path: "/" before every component.
RECURSIVE PathStr(_)
PathStr(p) == IF p = <<>> THEN <<>> ELSE <<47>> \o Head(p) \o PathStr(Tail(p))

\* Path(s).name: what follows the last "/" of the string.
RECURSIVE NameOf(_)
NameOf(s) ==
    IF \E i \in 1..Len(s) : s[i] = 47
    THEN NameOf(Tail(s))
    ELSE s

\* str.strip() on a string whose only whitespace is the space.
RECURSIVE LStrip(_)
LStrip(s) == IF s # <<>> /\ Head(s) = 32 THEN LStrip(Tail(s)) ELSE s

RECURSIVE RStrip(_)
RStrip(s) ==
    IF s # <<>> /\ s[Len(s)] = 32 THEN RStrip(SubSeq(s, 1, Len(s) - 1)) ELSE s

Strip(s) == RStrip(LStrip(s))

\* ------------------------------------------------------------- errors.py
\* isinstance(e, PipelineError): the class and its two subclasses.
IsPipelineError(e) == e.type \in {"PipelineError", "InputValidationError", "ConfigError"}

\* -------------------------------------------------------- input_layer.py
Missing == [kind |-> "missing", data |-> <<>>]
Dir == [kind |-> "dir", data |-> <<>>]
File(data) == [kind |-> "file", data |-> data]

\* The file operations _validate_paths does on one path.
PathChecks(files, p) ==
    IF files[p].kind = "missing" THEN {<<"exists", p>>}
    ELSE {<<"exists", p>>, <<"is_file", p>>}

\* _validate_paths: val holds the operations done on the inputs up to the raise.
RECURSIVE ValidateFrom(_, _, _)
ValidateFrom(files, ps, done) ==
    IF ps = <<>> THEN Ok(done)
    ELSE LET p == Head(ps)
             io == done \cup PathChecks(files, p) IN
         IF files[p].kind = "missing"
         THEN [ok |-> FALSE, val |-> io,
               err |-> Error("InputValidationError", "Input file does not exist", PathStr(p))]
         ELSE IF files[p].kind # "file"
         THEN [ok |-> FALSE, val |-> io,
               err |-> Error("InputValidationError", "Input path is not a file", PathStr(p))]
         ELSE ValidateFrom(files, Tail(ps), io)

_validate_paths(files, ps) ==
    IF ps = <<>>
    THEN [ok |-> FALSE, val |-> {},
          err |-> Error("InputValidationError", "No input files provided.", <<>>)]
    ELSE ValidateFrom(files, ps, {})

ConfigError(msg) == Error("ConfigError", msg, <<>>)

\* isinstance(x, int) of a value json.loads returned: bool is a subclass of int.
IsInstanceInt(x) == x.t \in {"int", "bool"}

\* cfg["transform"] in ("upper", "lower", "noop")
InTransforms(x) == x.t = "str" /\ x.v \in {"upper", "lower", "noop"}

_load_config(node) ==
    IF node.kind = "missing" THEN Raise(ConfigError("Config file does not exist"))
    ELSE IF node.kind = "dir" THEN Raise(ConfigError("Config path is not a file"))
    ELSE IF node.kind # "json" THEN Raise(ConfigError("Failed to parse config as JSON"))
    ELSE IF node.val.t # "object" THEN Raise(ConfigError("Config must be a JSON object."))
    ELSE LET c == node.val.m IN
         IF ~(HasKey(c, "transform") /\ HasKey(c, "seed"))
         THEN Raise(ConfigError("Missing required config keys"))
         ELSE IF ~InTransforms(Get(c, "transform"))
         THEN Raise(ConfigError("config.transform must be upper, lower, or noop"))
         ELSE IF ~IsInstanceInt(Get(c, "seed"))
         THEN Raise(ConfigError("config.seed must be an integer"))
         ELSE Ok(c)

LoadedInputs(ps, hs, c, version) ==
    [input_paths |-> ps, input_hashes |-> hs, config |-> c,
     config_hash |-> sha256_json(c), pipeline_version |-> Strip(version)]

\* --------------------------------------------------- provenance_layer.py
\* The updates of the loop over sorted(input_hashes.keys()).
RECURSIVE FeedInputs(_, _)
FeedInputs(input_hashes, ks) ==
    IF ks = <<>> THEN <<>>
    ELSE <<Head(ks), Get(input_hashes, Head(ks))>> \o FeedInputs(input_hashes, Tail(ks))

\* A _compute_run_id that loops over input_hashes.keys() as the caller built it.
RunIdStreamUnsorted(input_hashes, config_hash, pipeline_version) ==
    FeedInputs(input_hashes, Keys(input_hashes)) \o <<config_hash, pipeline_version>>

\* What _compute_run_id feeds the hasher, update by update.
RunIdStream(input_hashes, config_hash, pipeline_version) ==
    FeedInputs(input_hashes, SortedStrs(Keys(input_hashes)))
        \o <<config_hash, pipeline_version>>

_compute_run_id(input_hashes, config_hash, pipeline_version) ==
    hexdigest(RunIdStream(input_hashes, config_hash, pipeline_version))

\* sys.version, platform.platform(), platform.python_implementation()
execution_environment ==
    [python_version |-> "3.11.4", platform |-> "Linux", implementation |-> "CPython"]

RECURSIVE InputsList(_)
InputsList(items) ==
    IF items = <<>> THEN <<>>
    ELSE <<[path |-> items[1][1], sha256 |-> items[1][2]]>> \o InputsList(Tail(items))

\* A build_provenance whose run identifier also hashes the audit timestamp.
build_provenance_stamped(input_hashes, config_hash, pipeline_version, parameters, now) ==
    [run_id |-> hexdigest(FeedInputs(input_hashes, SortedStrs(Keys(input_hashes)))
                              \o <<config_hash, pipeline_version, [isoformat |-> now]>>),
     pipeline_version |-> pipeline_version,
     timestamp_utc |-> [isoformat |-> now],
     inputs |-> InputsList(SortedItems(input_hashes)),
     config_sha256 |-> config_hash,
     parameters |-> parameters,
     execution_environment |-> execution_environment,
     deterministic_scope |-> "inputs + config + pipeline_version"]

\* now is what datetime.now(timezone.utc) returned.
build_provenance(input_hashes, config_hash, pipeline_version, parameters, now) ==
    [run_id |-> _compute_run_id(input_hashes, config_hash, pipeline_version),
     pipeline_version |-> pipeline_version,
     timestamp_utc |-> [isoformat |-> now],
     inputs |-> InputsList(SortedItems(input_hashes)),
     config_sha256 |-> config_hash,
     parameters |-> parameters,
     execution_environment |-> execution_environment,
     deterministic_scope |-> "inputs + config + pipeline_version"]

\* -------------------------------------------------------- output_layer.py
\* ".processed"
ProcessedSuffix == <<46, 112, 114, 111, 99, 101, 115, 115, 101, 100>>
\* the key "provenance" of the written mapping
ProvenanceKey == <<112, 114, 111, 118, 101, 110, 97, 110, 99, 101>>

OutFile(input_path) == NameOf(input_path) \o ProcessedSuffix

Put(f, k, v) == (k :> v) @@ f

\* The loop of write_outputs over the first n of the sorted items: the artifact
\* files written, and the mapping built.
RECURSIVE WriteArtifacts(_, _, _)
WriteArtifacts(items, n, acc) ==
    IF n = 0 \/ items = <<>> THEN acc
    ELSE WriteArtifacts(Tail(items), n - 1,
             [files |-> Put(acc.files, OutFile(items[1][1]), items[1][2]),
              written |-> Put(acc.written, items[1][1], OutFile(items[1][1]))])

\* The whole of write_outputs when its first failAt - 1 writes succeed and the
\* next one raises (failAt = 0: none raises).  The writes are the artifacts in
\* sorted order, then provenance.json.
write_outputs(out, items, prov, failAt) ==
    LET sorted == SortedItems(items)
        n == IF failAt = 0 THEN Len(sorted) ELSE failAt - 1
        acc == WriteArtifacts(sorted, n, [files |-> out.artifacts, written |-> <<>>])
        all == failAt = 0 \/ failAt > Len(sorted) + 1 IN
    [ok |-> all,
     out |-> [artifacts |-> acc.files,
              provenance |-> IF all THEN <<[json |-> prov]>> ELSE out.provenance],
     written |-> IF all THEN Put(acc.written, ProvenanceKey, ProvenanceKey) ELSE <<>>,
     err |-> IF all THEN NoError ELSE Error("OSError", "write failed", <<>>)]

\* ------------------------------------------------------------------ run.py
\* Except clauses in which except Exception comes first.
ExitCodeBroadFirst(e) == 3

\* The except clauses of main.
ExitCode(e) == IF IsPipelineError(e) THEN 2 ELSE 3

Stages == <<"load_validate_hash", "_read_inputs", "process", "build_provenance",
            "write_outputs">>

\* ------------------------------------------------------------- the world
NameA == <<97>>
NameB == <<98>>
NameC == <<99>>
NameE == <<101>>

\* The paths a command line names: a, ./a, /e/a, b, c (missing) and . (a
\* directory).
InputArgs ==
    {[abs |-> FALSE, parts |-> <<NameA>>],
     [abs |-> FALSE, parts |-> <<Dot, NameA>>],
     [abs |-> TRUE, parts |-> <<NameE, NameA>>],
     [abs |-> FALSE, parts |-> <<NameB>>],
     [abs |-> FALSE, parts |-> <<NameC>>],
     [abs |-> FALSE, parts |-> <<Dot>>]}

AllPaths == {Resolve(a) : a \in InputArgs}

InputLists == UNION {[1..n -> InputArgs] : n \in 1..MaxInputs}

\* "", " " and " 1 "
Versions == {<<>>, <<32>>, <<32, 49, 32>>}

\* What the external writer writes.
WriterData == {<<49>>}

InitialFiles ==
    {[p \in AllPaths |->
         IF p = Cwd THEN Dir
         ELSE IF p = Cwd \o <<NameA>> THEN File(<<97, 65>>)
         ELSE IF p = Cwd \o <<NameB>> THEN File(<<255>>)
         ELSE IF p = <<NameE, NameA>> THEN File(ea)
         ELSE Missing] : ea \in {<<97, 65>>, <<65>>}}

Scalar(t, v) == [t |-> t, v |-> v, m |-> <<>>]
JInt(v) == Scalar("int", v)
JStr(v) == Scalar("str", v)
Object(members) == [t |-> "object", v |-> "{}", m |-> members]
JsonFile(val) == [kind |-> "json", val |-> val]

SeedValues == {JInt("1"), JStr("3"), Scalar("bool", "true"), Scalar("float", "1.5"),
               Scalar("null", "null"), Scalar("array", "[]"), Object(<<>>)}

ConfigFiles ==
    {[kind |-> "missing", val |-> JStr("")], [kind |-> "dir", val |-> JStr("")],
     [kind |-> "badjson", val |-> JStr("")],
     JsonFile(Scalar("array", "[]")),
     JsonFile(Object(<< <<"transform", JStr("upper")>> >>)),
     JsonFile(Object(<< <<"seed", JInt("1")>> >>)),
     JsonFile(Object(<< <<"transform", JStr("mixed")>>, <<"seed", JInt("1")>> >>)),
     JsonFile(Object(<< <<"transform", JStr("noop")>>, <<"seed", JInt("1")>>,
                        <<"extra", JStr("x")>> >>))}
    \cup {JsonFile(Object(<< <<"transform", JStr("upper")>>, <<"seed", sd>> >>)) :
             sd \in SeedValues}
    \cup {JsonFile(Object(<< <<"seed", JInt("1")>>, <<"transform", JStr(tr)>> >>)) :
             tr \in {"lower", "noop"}}

NoCall == [raw |-> <<>>, parameters |-> <<>>, input_hashes |-> <<>>,
           config_hash |-> sha256_bytes(<<>>), pipeline_version |-> <<>>]

\* The locals of a run that has not started.
FreshRun ==
    /\ pc = "load_validate_hash"
    /\ idx = 1
    /\ paths = <<>>
    /\ cfg = <<>>
    /\ hashes = <<>>
    /\ loaded = <<>>
    /\ raw_inputs = <<>>
    /\ processed = <<>>
    /\ provenance = <<>>
    /\ written = <<>>
    /\ failure = NoError
    /\ exit = <<>>
    /\ executed = <<>>
    /\ inputIO = {}

Init ==
    /\ fs \in InitialFiles
    /\ cfgfile \in ConfigFiles
    /\ argv \in [inputs : InputLists, version : Versions]
    /\ writes = 0
    /\ FreshRun
    /\ outfs = [artifacts |-> <<>>, provenance |-> <<>>]
    /\ prev = <<>>
    /\ t_in = NoCall
    /\ t_out = <<>>

\* An exception leaves main through its except clauses.
Fail(e) ==
    /\ failure' = e
    /\ exit' = <<ExitCode(e)>>
    /\ pc' = "done"

\* load_validate_hash up to the end of _validate_paths.
ValidateInputs ==
    /\ pc = "load_validate_hash"
    /\ executed' = Append(executed, "load_validate_hash")
    /\ IF Strip(argv.version) = <<>>
       THEN /\ Fail(Error("InputValidationError", "pipeline_version must be non-empty", <<>>))
            /\ UNCHANGED <<paths, inputIO>>
       ELSE LET ps == [i \in 1..Len(argv.inputs) |-> Resolve(argv.inputs[i])]
                r == _validate_paths(fs, ps) IN
            /\ paths' = ps
            /\ inputIO' = r.val
            /\ IF r.ok
               THEN pc' = "_load_config" /\ UNCHANGED <<failure, exit>>
               ELSE Fail(r.err)
    /\ UNCHANGED <<worldVars, testVars, idx, cfg, hashes, loaded, raw_inputs, processed,
                   provenance, outfs, written, prev>>

\* load_validate_hash: cfg = _load_config(cfg_path).
LoadConfig ==
    /\ pc = "_load_config"
    /\ LET r == _load_config(cfgfile) IN
       IF r.ok
       THEN cfg' = r.val /\ pc' = "sha256_file" /\ UNCHANGED <<failure, exit>>
       ELSE Fail(r.err) /\ UNCHANGED cfg
    /\ UNCHANGED <<worldVars, testVars, idx, paths, hashes, loaded, raw_inputs, processed,
                   provenance, outfs, written, executed, inputIO, prev>>

\* One turn of the comprehension that hashes the inputs; the last turn is
\* followed by the rest of load_validate_hash, which returns the record.
HashInput ==
    /\ pc = "sha256_file"
    /\ LET p == paths[idx]
           key == PathStr(p) IN
       IF fs[p].kind # "file"
       THEN /\ Fail(Error("FileNotFoundError", "No such file or directory", key))
            /\ UNCHANGED <<idx, hashes, loaded, inputIO>>
       ELSE LET hs == DictSet(hashes, key, sha256_file(fs[p].data)) IN
            /\ hashes' = hs
            /\ inputIO' = inputIO \cup {<<"read", p>>}
            /\ UNCHANGED <<failure, exit>>
            /\ IF idx < Len(paths)
               THEN idx' = idx + 1 /\ UNCHANGED <<pc, loaded>>
               ELSE /\ idx' = 1
                    /\ pc' = "_read_inputs"
                    /\ loaded' = <<LoadedInputs(paths, hs, cfg, argv.version)>>
    /\ UNCHANGED <<worldVars, testVars, paths, cfg, raw_inputs, processed, provenance,
                   outfs, written, executed, prev>>

\* One turn of the comprehension of _read_inputs.
ReadInput ==
    /\ pc = "_read_inputs"
    /\ executed' = IF idx = 1 THEN Append(executed, "_read_inputs") ELSE executed
    /\ LET p == loaded[1].input_paths[idx] IN
       IF fs[p].kind # "file"
       THEN /\ Fail(Error("FileNotFoundError", "No such file or directory", PathStr(p)))
            /\ UNCHANGED <<idx, raw_inputs, inputIO>>
       ELSE /\ raw_inputs' = DictSet(raw_inputs, PathStr(p), fs[p].data)
            /\ inputIO' = inputIO \cup {<<"read", p>>}
            /\ UNCHANGED <<failure, exit>>
            /\ IF idx < Len(loaded[1].input_paths)
               THEN idx' = idx + 1 /\ UNCHANGED pc
               ELSE idx' = 1 /\ pc' = "process"
    /\ UNCHANGED <<worldVars, testVars, paths, cfg, hashes, loaded, processed, provenance,
                   outfs, written, prev>>

\* processed = process(raw_inputs, parameters=loaded.config)
Process ==
    /\ pc = "process"
    /\ executed' = Append(executed, "process")
    /\ LET r == process(raw_inputs, loaded[1].config) IN
       IF r.ok
       THEN processed' = r.val /\ pc' = "build_provenance" /\ UNCHANGED <<failure, exit>>
       ELSE Fail(r.err) /\ UNCHANGED processed
    /\ UNCHANGED <<worldVars, testVars, idx, paths, cfg, hashes, loaded, raw_inputs,
                   provenance, outfs, written, inputIO, prev>>

\* provenance = build_provenance(...), which reads the wall clock.
BuildProvenance ==
    /\ pc = "build_provenance"
    /\ executed' = Append(executed, "build_provenance")
    /\ \E now \in 0..MaxClock :
           provenance' = <<build_provenance(loaded[1].input_hashes, loaded[1].config_hash,
                                            loaded[1].pipeline_version, loaded[1].config, now)>>
    /\ pc' = "write_outputs"
    /\ UNCHANGED <<worldVars, testVars, idx, paths, cfg, hashes, loaded, raw_inputs,
                   processed, outfs, written, failure, exit, inputIO, prev>>

\* write_outputs(...), then return 0.  Any of its writes may fail.
WriteOutputs ==
    /\ pc = "write_outputs"
    /\ executed' = Append(executed, "write_outputs")
    /\ \E failAt \in 0..(Len(processed) + 1) :
           LET r == write_outputs(outfs, processed, provenance[1], failAt) IN
           /\ outfs' = r.out
           /\ IF r.ok
              THEN /\ written' = r.written
                   /\ exit' = <<0>>
                   /\ pc' = "done"
                   /\ UNCHANGED failure
              ELSE Fail(r.err) /\ UNCHANGED written
    /\ UNCHANGED <<worldVars, testVars, idx, paths, cfg, hashes, loaded, raw_inputs,
                   processed, provenance, inputIO, prev>>

\* After a run that returned 0, the same command line is run once more.
Rerun ==
    /\ pc = "done"
    /\ exit = <<0>>
    /\ prev = <<>>
    /\ prev' = <<[exit |-> exit, processed |-> processed, provenance |-> provenance,
                  writes |-> writes]>>
    /\ pc' = "load_validate_hash"
    /\ idx' = 1
    /\ paths' = <<>>
    /\ cfg' = <<>>
    /\ hashes' = <<>>
    /\ loaded' = <<>>
    /\ raw_inputs' = <<>>
    /\ processed' = <<>>
    /\ provenance' = <<>>
    /\ written' = <<>>
    /\ failure' = NoError
    /\ exit' = <<>>
    /\ executed' = <<>>
    /\ inputIO' = {}
    /\ UNCHANGED <<worldVars, testVars, outfs>>

\* Another process replaces or removes one of the input files, at any point up
\* to the last read of the inputs: a later change is seen by the next run
\* only, as a change before it starts.
ExternalWrite ==
    /\ writes < MaxWrites
    /\ pc \in {"load_validate_hash", "_load_config", "sha256_file", "_read_inputs"}
    /\ writes' = writes + 1
    /\ \E i \in 1..Len(argv.inputs) :
           LET p == Resolve(argv.inputs[i]) IN
           /\ fs[p].kind = "file"
           /\ \E node \in {File(d) : d \in WriterData} \cup {Missing} :
                  /\ node # fs[p]
                  /\ fs' = [fs EXCEPT ![p] = node]
    /\ UNCHANGED <<cfgfile, argv, runVars, testVars>>

Next ==
    \/ ValidateInputs
    \/ LoadConfig
    \/ HashInput
    \/ ReadInput
    \/ Process
    \/ BuildProvenance
    \/ WriteOutputs
    \/ Rerun
    \/ ExternalWrite

Spec == Init /\ [][Next]_vars

\* ------------------------------------------- direct callers of the core
\* No run of main: the processing and provenance layers are called directly.
NoRun ==
    /\ fs = [p \in AllPaths |-> Missing]
    /\ cfgfile = [kind |-> "missing", val |-> JStr("")]
    /\ argv = [inputs |-> <<>>, version |-> <<>>]
    /\ writes = 0
    /\ pc = "idle"
    /\ idx = 1
    /\ paths = <<>>
    /\ cfg = <<>>
    /\ hashes = <<>>
    /\ loaded = <<>>
    /\ raw_inputs = <<>>
    /\ processed = <<>>
    /\ provenance = <<>>
    /\ written = <<>>
    /\ failure = NoError
    /\ exit = <<>>
    /\ executed = <<>>
    /\ inputIO = {}
    /\ outfs = [artifacts |-> <<>>, provenance |-> <<>>]
    /\ prev = <<>>

\* The keys of the dicts a direct caller builds: /d/a, /d/b, /e/a.
TestKeys == {PathStr(Cwd \o <<NameA>>), PathStr(Cwd \o <<NameB>>), PathStr(<<NameE, NameA>>)}

\* "aA", "1", 0xFF, "a" 0xFF
TestData == {<<97, 65>>, <<49>>, <<255>>, <<97, 255>>}

\* The dicts of at most MaxEntries entries, in every insertion order.
Dicts(keys, values) ==
    {d \in UNION {[1..n -> keys \X values] : n \in 0..MaxEntries} :
        \A i, j \in 1..Len(d) : i # j => d[i][1] # d[j][1]}

TestParameters ==
    {<< <<"transform", JStr(tr)>>, <<"seed", JInt("1")>> >> :
        tr \in {"upper", "lower", "noop", "mixed"}}
    \cup {<< <<"transform", JStr("upper")>> >>, << <<"seed", JInt("1")>> >>, <<>>}

InitProcess ==
    /\ NoRun
    /\ t_in \in {[NoCall EXCEPT !.raw = r, !.parameters = ps] :
                    r \in Dicts(TestKeys, TestData), ps \in TestParameters}
    /\ t_out = <<>>

\* A call of process with the arguments held.
CallProcess ==
    /\ Len(t_out) < MaxCalls
    /\ t_out' = Append(t_out, [args |-> t_in, after |-> t_in,
                               res |-> process(t_in.raw, t_in.parameters)])
    /\ UNCHANGED <<t_in, worldVars, runVars>>

\* The caller builds the same mapping in another insertion order.
ReorderRaw ==
    /\ t_out # <<>>
    /\ t_out[Len(t_out)].args = t_in
    /\ \E q \in Orderings(t_in.raw) \ {t_in.raw} : t_in' = [t_in EXCEPT !.raw = q]
    /\ UNCHANGED <<t_out, worldVars, runVars>>

NextProcess == CallProcess \/ ReorderRaw

SpecProcess == InitProcess /\ [][NextProcess]_vars

TestDigests == {sha256_bytes(<<97, 65>>), sha256_bytes(<<49>>)}

InitRunId ==
    /\ NoRun
    /\ t_in \in {[NoCall EXCEPT !.input_hashes = hs, !.config_hash = c,
                                !.pipeline_version = v] :
                    hs \in Dicts(TestKeys, TestDigests),
                    c \in {sha256_json(<<>>), sha256_json(<< <<"seed", JInt("1")>> >>)},
                    v \in {<<49>>, <<50>>}}
    /\ t_out = <<>>

\* A call of _compute_run_id with the arguments held.
CallRunId ==
    /\ Len(t_out) < MaxCalls
    /\ t_out' = Append(t_out, [args |-> t_in, after |-> t_in,
                               res |-> Ok(_compute_run_id(t_in.input_hashes, t_in.config_hash,
                                                          t_in.pipeline_version))])
    /\ UNCHANGED <<t_in, worldVars, runVars>>

\* The caller supplies the same entries in another order.
ReorderHashes ==
    /\ t_out # <<>>
    /\ t_out[Len(t_out)].args = t_in
    /\ \E q \in Orderings(t_in.input_hashes) \ {t_in.input_hashes} :
           t_in' = [t_in EXCEPT !.input_hashes = q]
    /\ UNCHANGED <<t_out, worldVars, runVars>>

NextRunId == CallRunId \/ ReorderHashes

SpecRunId == InitRunId /\ [][NextRunId]_vars

\* ------------------------------------------------------------ the claims
RunDone == pc = "done"
BothRunsSucceeded == prev # <<>> /\ prev[1].exit = <<0>> /\ exit = <<0>>
Unstamped(prov) == [prov EXCEPT !.timestamp_utc = [isoformat |-> 0]]

\* C1: two complete runs of the same command line on unchanged input files,
\* config and version have the same run_id and the same processed artifacts,
\* and their provenance records are equal in every field but timestamp_utc,
\* whatever the wall clock said in each.
C1_NonInterference ==
    (BothRunsSucceeded /\ writes = 0) =>
        /\ provenance[1].run_id = prev[1].provenance[1].run_id
        /\ processed = prev[1].processed
        /\ Unstamped(provenance[1]) = Unstamped(prev[1].provenance[1])

\* Two successful runs on unchanged inputs whose clocks differed.
C1_Witness ==
    /\ BothRunsSucceeded
    /\ writes = 0
    /\ provenance[1].timestamp_utc # prev[1].provenance[1].timestamp_utc

IsSortedFeed(stream, input_hashes, config_hash, pipeline_version) ==
    LET n == Len(input_hashes) IN
    /\ Len(stream) = 2 * n + 2
    /\ \A k \in 1..n : /\ HasKey(input_hashes, stream[2 * k - 1])
                       /\ stream[2 * k] = Get(input_hashes, stream[2 * k - 1])
    /\ \A k \in 1..(n - 1) : StrLess(stream[2 * k - 1], stream[2 * k + 1])
    /\ stream[2 * n + 1] = config_hash
    /\ stream[2 * n + 2] = pipeline_version

\* C2: _compute_run_id returns the same identifier for every order in which
\* the entries of one mapping are supplied, and what it hashes is the (path,
\* hash) pairs in sorted-by-path order, then the config hash, then the version.
C2_RunIdOrderInvariant ==
    \A i, j \in 1..Len(t_out) :
        /\ t_out[i].res.val = t_out[j].res.val
        /\ IsSortedFeed(t_out[i].res.val.sha256, t_out[i].args.input_hashes,
                        t_out[i].args.config_hash, t_out[i].args.pipeline_version)

\* Two calls whose entries came in different orders, the first of them unsorted.
C2_Witness ==
    \E i, j \in 1..Len(t_out) :
        /\ t_out[i].args.input_hashes # t_out[j].args.input_hashes
        /\ Len(t_out[i].args.input_hashes) >= 2
        /\ Keys(t_out[i].args.input_hashes) # SortedStrs(Keys(t_out[i].args.input_hashes))

\* Both raised an exception of the same class and message, or both returned
\* the same keys with the same bytes.
SameOutcome(r1, r2) ==
    IF r1.ok
    THEN r2.ok /\ AsMapping(r1.val) = AsMapping(r2.val)
    ELSE ~r2.ok /\ r1.err.type = r2.err.type /\ r1.err.msg = r2.err.msg

\* C3: two calls of process with the same mapping and the same parameters
\* have the same outcome, whatever the order of the entries and whatever was
\* called before, and leave their arguments unchanged.
C3_ProcessDeterministic ==
    \A i, j \in 1..Len(t_out) :
        /\ t_out[i].after = t_out[i].args
        /\ (/\ AsMapping(t_out[i].args.raw) = AsMapping(t_out[j].args.raw)
            /\ t_out[i].args.parameters = t_out[j].args.parameters)
               => SameOutcome(t_out[i].res, t_out[j].res)

\* The three configs of the schema-rejection property: seed missing, transform
\* "mixed", seed the string "3".
RejectedSchemas ==
    {JsonFile(Object(<< <<"transform", JStr("upper")>> >>)),
     JsonFile(Object(<< <<"transform", JStr("mixed")>>, <<"seed", JInt("1")>> >>)),
     JsonFile(Object(<< <<"transform", JStr("upper")>>, <<"seed", JStr("3")>> >>))}

\* C4: with a config of a rejected schema and a non-empty version,
\* load_validate_hash fails with ConfigError, and no file operation on an
\* input has happened when it fails.
C4_SchemaRejectedBeforeInputIO ==
    (RunDone /\ cfgfile \in RejectedSchemas /\ Strip(argv.version) # <<>>) =>
        /\ failure.type = "ConfigError"
        /\ inputIO = {}

IsPrefix(s, t) == Len(s) <= Len(t) /\ s = SubSeq(t, 1, Len(s))

\* C5: main returns 0 only after all five stages ran without failure, 2
\* exactly when a stage raised InputValidationError or ConfigError, 3 for any
\* other failure, and no stage runs after the one that failed.
C5_ExitCodes ==
    /\ RunDone <=> exit # <<>>
    /\ exit \in {<<>>, <<0>>, <<2>>, <<3>>}
    /\ exit = <<0>> => failure = NoError /\ executed = Stages
    /\ exit = <<2>> <=> failure.type \in {"InputValidationError", "ConfigError"}
    /\ exit = <<3>> <=>
           (failure # NoError /\ failure.type \notin {"InputValidationError", "ConfigError"})
    /\ failure # NoError => RunDone /\ IsPrefix(executed, Stages)
    /\ failure.type \in {"InputValidationError", "ConfigError"}
           => executed = <<"load_validate_hash">>
    /\ failure.type = "UnicodeDecodeError" => executed = SubSeq(Stages, 1, 3)
    /\ failure.type = "OSError" => executed = Stages

\* A run that returned 0 was followed by one that lost an input file after
\* validating it, and returned 3 without reading, processing or writing.
C5_Witness ==
    /\ prev # <<>>
    /\ prev[1].exit = <<0>>
    /\ exit = <<3>>
    /\ failure.type = "FileNotFoundError"
    /\ executed = <<"load_validate_hash">>

HasValidTransformAndSeed ==
    /\ cfgfile.kind = "json"
    /\ cfgfile.val.t = "object"
    /\ HasKey(cfgfile.val.m, "transform")
    /\ InTransforms(Get(cfgfile.val.m, "transform"))
    /\ HasKey(cfgfile.val.m, "seed")

\* C6: for a config object with a valid transform, _load_config returns if
\* and only if seed is a JSON integer, and otherwise raises ConfigError.
C6_StrictSeed ==
    HasValidTransformAndSeed =>
        /\ cfg # <<>> => Get(cfgfile.val.m, "seed").t = "int"
        /\ (RunDone /\ failure.type = "ConfigError") => Get(cfgfile.val.m, "seed").t # "int"

\* C7: in the record load_validate_hash returns, the entries of input_paths
\* and the keys of input_hashes are in one-to-one correspondence.
C7_PathsHashesOneToOne ==
    loaded # <<>> =>
        LET ps == loaded[1].input_paths
            hs == loaded[1].input_hashes IN
        /\ Len(ps) = Len(hs)
        /\ \A i \in 1..Len(ps) :
               Cardinality({j \in 1..Len(hs) : hs[j][1] = PathStr(ps[i])}) = 1
        /\ \A j \in 1..Len(hs) :
               Cardinality({i \in 1..Len(ps) : PathStr(ps[i]) = hs[j][1]}) = 1

\* C8: process called with both parameters, a transform that is none of
\* upper, lower, noop, and at least one entry raises the unsupported-transform
\* error.
C8_UnsupportedTransform ==
    \A i \in 1..Len(t_out) :
        LET a == t_out[i].args IN
        (/\ HasKey(a.parameters, "transform")
         /\ HasKey(a.parameters, "seed")
         /\ ~InTransforms(Get(a.parameters, "transform"))
         /\ a.raw # <<>>)
            => /\ ~t_out[i].res.ok
               /\ t_out[i].res.err.type = "ValueError"
               /\ t_out[i].res.err.msg = "Unsupported transform"

\* C9: when main returns 0, every distinct input path has an artifact file
\* that holds its transformed bytes and is the file written reports for it,
\* and two distinct input paths do not share an artifact file.
C9_ArtifactsComplete ==
    exit = <<0>> =>
        LET keys == {PathStr(p) : p \in Range(loaded[1].input_paths)} IN
        /\ \A k \in keys :
               /\ k \in DOMAIN written
               /\ written[k] \in DOMAIN outfs.artifacts
               /\ outfs.artifacts[written[k]] = Get(processed, k)
        /\ \A k1, k2 \in keys : k1 # k2 => written[k1] # written[k2]

\* C10: when main returns 0, the sha256 the provenance records for an input
\* path is the digest of the bytes passed to process for that path, whatever
\* an external writer did between the two reads of the file.
C10_HashMatchesProcessedBytes ==
    exit = <<0>> =>
        \A k \in 1..Len(provenance[1].inputs) :
            LET e == provenance[1].inputs[k] IN
            /\ HasKey(raw_inputs, e.path)
            /\ e.sha256 = sha256_bytes(Get(raw_inputs, e.path))

====
